---- MODULE Spec2Model ----
(***************************************************************************)
(* Model of logger_system: the Logger facades of loggers.py (Logger,       *)
(* PostgreSQLLogger, LokiLoggerService), their handlers, the process-wide  *)
(* logging state they share (the named loggers of the logging module and   *)
(* the log record factory) and the LoggerManager registry.                 *)
(*                                                                         *)
(* Python objects live in heaps modelled as sequences: an object's         *)
(* identity is its index.  0 stands for "no object".                       *)
(***************************************************************************)
EXTENDS Integers, Sequences, FiniteSets, TLC

\* ---------------------------------------------------------------- bounds
NThreads == 2
MaxFacades == 2
MaxHandlers == 6
MaxCalls == 2
MaxTb == 2
MaxDepth == 3

Threads == 1..NThreads

\* ------------------------------------------------------------- constants
DEBUG == 10
INFO == 20
WARNING == 30
ERROR == 40
CRITICAL == 50
Levels == {DEBUG, INFO, WARNING, ERROR, CRITICAL}

None == "None"
NA == "NA"
NoLine == 0        \* a line number that is None
NALine == -1       \* emit's default for a missing custom_lineno
NoSelf == "NoSelf" \* a frame without a local named self

ModuleName == "logger_system.loggers"   \* __name__ of loggers.py
Names == {None, "svc"}                  \* logical names handed to a facade
LogFiles == {"a.log", "b.log"}          \* registry keys / log_file values
Msgs == {"m"}
Classes == {"Logger", "PostgreSQLLogger", "LokiLoggerService"}

\* frames of application code that call a level method
AppFrames ==
  { [function |-> "handle", lineno |-> 12, module |-> "app", self |-> "Service"],
    [function |-> "main", lineno |-> 30, module |-> "app", self |-> NoSelf] }

\* the error_info dict a caller may hand to PostgreSQLLogger.error/critical
NoExtra == [present |-> FALSE, error_type |-> None, error_message |-> None,
            error_args |-> None, error_traceback |-> None]
ErrInfo == [present |-> TRUE, error_type |-> "ValueError", error_message |-> "boom",
            error_args |-> "('boom',)", error_traceback |-> "Traceback"]

\* ------------------------------------------------ ErrorTracker (loggers.py)
\* an exception object: its class, its message (its only argument) and its
\* __traceback__, outermost frame first; << >> is a __traceback__ of None
NoError == [cls |-> None, msg |-> None, tb |-> << >>]

Tracebacks ==
  UNION {[1..n -> AppFrames] : n \in 0..MaxTb}

Errors ==
  [cls : {"ValueError", "DBRecordsErrors"}, msg : {"boom", ""}, tb : Tracebacks]

\* traceback.format_exception_only: the line naming the exception
FormatExceptionOnly(error) ==
  << IF error.msg = "" THEN error.cls ELSE error.cls \o ": " \o error.msg >>

\* one entry of traceback.format_tb
FormatFrame(fr) == "  File " \o fr.module \o ", in " \o fr.function

\* format_exception that leaves the traceback out
FormatExceptionNoTraceback(error) == FormatExceptionOnly(error)

\* traceback.format_exception(type(error), error, error.__traceback__): the
\* header and the entries of the traceback when there is one, then the line
\* naming the exception
FormatException(error) ==
  (IF error.tb # << >>
   THEN << "Traceback (most recent call last):" >>
        \o [i \in 1..Len(error.tb) |-> FormatFrame(error.tb[i])]
   ELSE << >>)
  \o FormatExceptionOnly(error)

\* ErrorTracker.capture_error(error)
CaptureErrorDict(error) ==
  [present |-> TRUE,
   error_type |-> error.cls,
   error_message |-> error.msg,
   error_args |-> << error.msg >>,
   error_traceback |-> FormatException(error)]

\* ------------------------------------------------- AutoTracker (loggers.py)
NoInfo == [function |-> None, lineno |-> NoLine, module |-> None, class |-> None]

FrameInfo(fr) ==
  [function |-> fr.function, lineno |-> fr.lineno, module |-> fr.module,
   class |-> IF fr.self # NoSelf THEN fr.self ELSE None]

\* f_back of the frame at index i of a stack whose innermost frame is first;
\* 0 is None
FBack(stack, i) == IF i + 1 <= Len(stack) THEN i + 1 ELSE 0

RECURSIVE WalkFrames(_, _, _, _)
WalkFrames(stack, frame, last, n) ==
  IF n = 0 THEN last
  ELSE IF frame # 0
       THEN LET nf == FBack(stack, frame)
            IN WalkFrames(stack, nf, IF nf # 0 THEN nf ELSE last, n - 1)
       ELSE last

SkipFrames == 3

\* get_execution_info walking one frame too few
GetExecutionInfoSkipsTwo(stack) ==
  LET last == WalkFrames(stack, 1, 1, SkipFrames - 1)
  IN IF last # 0 THEN FrameInfo(stack[last]) ELSE NoInfo

\* stack[1] is the frame of get_execution_info itself
GetExecutionInfo(stack) ==
  LET last == WalkFrames(stack, 1, 1, SkipFrames)
  IN IF last # 0 THEN FrameInfo(stack[last]) ELSE NoInfo

LegacyModuleName == "logger_system.logging"   \* __name__ of logging.py

\* AutoTracker.get_execution_info of logging.py:
\* inspect.currentframe().f_back.f_back.f_back, then the attributes of that
\* frame; an attribute of None raises AttributeError
GetExecutionInfoLegacy(stack) ==
  LET f1 == FBack(stack, 1)
      f2 == IF f1 # 0 THEN FBack(stack, f1) ELSE 0
      f3 == IF f2 # 0 THEN FBack(stack, f2) ELSE 0
  IN IF f3 = 0
     THEN [raised |-> TRUE, info |-> NoInfo]
     ELSE [raised |-> FALSE,
           info |-> [function |-> stack[f3].function, lineno |-> stack[f3].lineno,
                     module |-> stack[f3].module, class |-> None]]

\* the frame of get_execution_info of the module impl
TrackerFrame(impl) ==
  [function |-> "get_execution_info", lineno |-> IF impl = ModuleName THEN 40 ELSE 25,
   module |-> impl, self |-> NoSelf]

\* the frames above a call of get_execution_info, innermost first
OuterStacks ==
  UNION {[1..n -> AppFrames \cup {[function |-> "<module>", lineno |-> 1,
                                   module |-> "__main__", self |-> NoSelf]}] : n \in 0..MaxDepth}

LevelMethod(level) ==
  CASE level = DEBUG -> "debug"
    [] level = INFO -> "info"
    [] level = WARNING -> "warning"
    [] level = ERROR -> "error"
    [] level = CRITICAL -> "critical"

LevelPrefix(level) ==
  CASE level = DEBUG -> "Debug: "
    [] level = INFO -> "Info: "
    [] level = WARNING -> "Warning: "
    [] level = ERROR -> "Error: "
    [] level = CRITICAL -> "Critical: "

\* the frame of the application's script, which called the application function
ModuleFrame == [function |-> "<module>", lineno |-> 1, module |-> "__main__", self |-> NoSelf]

\* the call stack of get_execution_info when caller calls cls.<level>(...):
\* every level method, the overridden error and critical of PostgreSQLLogger
\* included, calls _log directly
LogStack(cls, level, caller) ==
  << [function |-> "get_execution_info", lineno |-> 40, module |-> ModuleName, self |-> NoSelf],
     [function |-> "_log", lineno |-> 116, module |-> ModuleName, self |-> cls],
     [function |-> LevelMethod(level), lineno |-> 137, module |-> ModuleName, self |-> cls],
     caller,
     ModuleFrame >>

\* ----------------------------------------------------------------- state
VARIABLES
  loggers,    \* logging.getLogger: logger name -> its handlers list (handler ids)
  handlers,   \* heap of handler objects
  received,   \* per handler, the records whose emit was called, in order
  facades,    \* heap of facade objects
  registry,   \* LoggerManager._loggers: log_file -> facade id, 0 when absent
  factory,    \* logging's process-wide record factory, as the chain of
              \* exec_info captured by the installed record_factory closures
  sessions,   \* heap of the sessions opened by store_log
  rows,       \* the committed rows of logs.logs
  thr,        \* per thread, the frame of the operation it is running
  last,       \* the operation that finished last: its name, how it ended
              \* ("returned" or "raised")
  given,      \* per key, the facades get_logger has returned to its callers
              \* since the key was last evicted
  ncalls      \* number of log calls started

vars == <<loggers, handlers, received, facades, registry, factory, sessions, rows,
          thr, last, given, ncalls>>

LoggerNames == (Names \ {None}) \cup {ModuleName}

IdleFrame ==
  [pc |-> "idle", raised |-> FALSE, facade |-> 0, level |-> 0,
   msg |-> "", info |-> NoInfo, old |-> <<>>, extra |-> NoExtra,
   key |-> None, name |-> None, call |-> 0, stack |-> << >>, error |-> NoError,
   handler |-> 0, session |-> 0]

Finished(op, outcome) == [op |-> op, outcome |-> outcome]

Init ==
  /\ loggers = [n \in LoggerNames |-> <<>>]
  /\ handlers = <<>>
  /\ received = <<>>
  /\ facades = <<>>
  /\ registry = [k \in LogFiles |-> 0]
  /\ factory = <<>>
  /\ sessions = <<>>
  /\ rows = <<>>
  /\ thr = [t \in Threads |-> IdleFrame]
  /\ last = Finished("none", "none")
  /\ given = [k \in LogFiles |-> {}]
  /\ ncalls = 0

\* ------------------------------------------------ facades and their sinks
\* owner is the facade whose _setup_logger created the handler
Handler(kind, level, file) ==
  [kind |-> kind, level |-> level, closed |-> FALSE, file |-> file, owner |-> 0]

\* self.name or __name__
LoggerNameOf(name) == IF name = None THEN ModuleName ELSE name

\* the handlers one run of _setup_logger creates, in attach order
NewHandlers(fac) ==
  CASE fac.cls = "Logger" ->
         (IF fac.log_file # None
          THEN << Handler("file", DEBUG, fac.log_file) >> ELSE << >>)
         \o << Handler("console", DEBUG, None) >>
    [] fac.cls = "PostgreSQLLogger" ->
         << Handler("db", DEBUG, None), Handler("console", INFO, None) >>
    [] fac.cls = "LokiLoggerService" ->
         << Handler("loki", DEBUG, None), Handler("console", INFO, None) >>

CanProvision(fac) == Len(handlers) + Len(NewHandlers(fac)) <= MaxHandlers

\* _setup_logger of the facade fid of the heap fs: bind the logger named after
\* the facade, detach (without closing) whatever that logger carries, attach
\* freshly created handlers
SetupLogger(fs, fid) ==
  LET fac == fs[fid]
      lg == LoggerNameOf(fac.name)
      new == [i \in 1..Len(NewHandlers(fac)) |-> [NewHandlers(fac)[i] EXCEPT !.owner = fid]]
  IN /\ facades' = [fs EXCEPT ![fid].logger = lg]
     /\ handlers' = handlers \o new
     /\ received' = received \o [i \in 1..Len(new) |-> << >>]
     /\ loggers' = [loggers EXCEPT ![lg] = [i \in 1..Len(new) |-> Len(handlers) + i]]

\* by is the place that constructed the facade: "app" or "manager"
NewFacade(cls, name, log_file, by) ==
  [cls |-> cls, name |-> name, log_file |-> log_file, logger |-> None, by |-> by]

Idle(t) == thr[t].pc = "idle"

\* Logger(...), PostgreSQLLogger(...), LokiLoggerService(...) called by
\* application code
Construct(t, cls, name, log_file) ==
  LET fac == NewFacade(cls, name, log_file, "app")
      fid == Len(facades) + 1
  IN /\ Idle(t)
     /\ Len(facades) < MaxFacades
     /\ cls # "Logger" => log_file = None
     /\ CanProvision(fac)
     /\ SetupLogger(Append(facades, fac), fid)
     /\ last' = Finished("construct", "returned")
     /\ UNCHANGED <<registry, factory, sessions, rows, thr, given, ncalls>>

\* facade.set_name(new_name) called by application code
SetName(t, fid, name) ==
  LET fs == [facades EXCEPT ![fid].name = name]
  IN /\ Idle(t)
     /\ fid \in 1..Len(facades)
     /\ CanProvision(fs[fid])
     /\ SetupLogger(fs, fid)
     /\ last' = Finished("set_name", "returned")
     /\ UNCHANGED <<registry, factory, sessions, rows, thr, given, ncalls>>

\* for handler in lg.handlers[:]: handler.close(); lg.removeHandler(handler)
CloseHandlersOf(hs, ids) ==
  [h \in 1..Len(hs) |->
     IF \E i \in 1..Len(ids) : ids[i] = h THEN [hs[h] EXCEPT !.closed = TRUE] ELSE hs[h]]

\* facade._close_logger()
CloseFacade(t, fid) ==
  LET lg == facades[fid].logger
  IN /\ Idle(t)
     /\ fid \in 1..Len(facades)
     /\ handlers' = CloseHandlersOf(handlers, loggers[lg])
     /\ loggers' = [loggers EXCEPT ![lg] = << >>]
     /\ last' = Finished("_close_logger", "returned")
     /\ UNCHANGED <<received, facades, registry, factory, sessions, rows, thr, given, ncalls>>

\* ------------------------------------------------------- records, dispatch
LevelName(level) ==
  CASE level = DEBUG -> "DEBUG"
    [] level = INFO -> "INFO"
    [] level = WARNING -> "WARNING"
    [] level = ERROR -> "ERROR"
    [] level = CRITICAL -> "CRITICAL"

NoCustom == [set |-> FALSE, function |-> None, lineno |-> NoLine, module |-> None]

\* the record the installed factory returns: the innermost factory is
\* logging.LogRecord, which sets no custom_* attribute; each record_factory
\* closure of the chain then overwrites the three attributes with the
\* exec_info it captured
RECURSIVE RecordFactory(_, _)
RecordFactory(chain, base) ==
  IF chain = << >> THEN base
  ELSE LET record == RecordFactory(SubSeq(chain, 1, Len(chain) - 1), base)
           exec_info == chain[Len(chain)]
       IN [record EXCEPT !.custom = [set |-> TRUE, function |-> exec_info.function,
                                     lineno |-> exec_info.lineno,
                                     module |-> exec_info.module]]

\* Logger.makeRecord: the record of the factory, then the keys of extra.
\* call and call_info identify the log call that made the record and the
\* exec_info that call resolved.
MakeRecord(chain, name, level, msg, extra, call, info) ==
  LET base == [name |-> name, levelno |-> level, msg |-> msg, custom |-> NoCustom,
               extra |-> NoExtra, call |-> call, call_info |-> info]
  IN [RecordFactory(chain, base) EXCEPT !.extra = extra]

\* SQLAlchemyLogHandler.emit: the arguments it hands to store_log; record
\* remembers the record the row was made from
RowOf(record) ==
  [name_logger |-> record.name,
   level |-> LevelName(record.levelno),
   message |-> record.msg,
   module |-> IF record.custom.set THEN record.custom.module ELSE NA,
   classname |-> NA,
   func_name |-> IF record.custom.set THEN record.custom.function ELSE NA,
   lineno |-> IF record.custom.set THEN record.custom.lineno ELSE NALine,
   error_type |-> IF record.extra.present THEN record.extra.error_type ELSE NA,
   error_message |-> IF record.extra.present THEN record.extra.error_message ELSE NA,
   error_args |-> IF record.extra.present THEN record.extra.error_args ELSE NA,
   error_traceback |-> IF record.extra.present THEN record.extra.error_traceback ELSE NA,
   record |-> record]

\* a handler that keeps one session for all its store_log calls
SharedSession(ss) == 1

\* self.Session(): the sessionmaker makes a new Session object at each call
NewSession(ss) == Len(ss) + 1

\* session = self.Session(), opened by the emit of the log call "call"
SessionOpen(st, sid, call) ==
  IF sid > Len(st.sessions)
  THEN [st EXCEPT !.sessions = Append(@, [state |-> "open", txn |-> "none", call |-> call,
                                          pending |-> << >>, committed |-> << >>])]
  ELSE [st EXCEPT !.sessions[sid].state = "open"]

\* session.add(log)
SessionAdd(st, sid, row) ==
  [st EXCEPT !.sessions[sid].pending = Append(@, row), !.sessions[sid].txn = "pending"]

\* session.commit(): every pending row of the session reaches the table
SessionCommit(st, sid) ==
  [st EXCEPT !.rows = @ \o st.sessions[sid].pending,
             !.sessions[sid].committed = @ \o st.sessions[sid].pending,
             !.sessions[sid].pending = << >>,
             !.sessions[sid].txn = "committed"]

\* session.close()
SessionClose(st, sid) ==
  [st EXCEPT !.sessions[sid].state = "closed", !.sessions[sid].pending = << >>]

\* SQLAlchemyLogHandler.store_log on the database st: open a session, add the
\* row, commit, close.  A commit that raises leaves the function at once.
StoreLog(st, row, commitOk) ==
  LET sid == NewSession(st.sessions)
      added == SessionAdd(SessionOpen(st, sid, row.record.call), sid, row)
  IN IF commitOk
     THEN SessionClose(SessionCommit(added, sid), sid)
     ELSE [added EXCEPT !.raised = TRUE]

\* Formatter.format: every format string of loggers.py names the three
\* custom_* attributes, so a record without them cannot be formatted
FormatFails(record) == ~record.custom.set

\* Handler.handle -> emit of handler h.  StreamHandler/FileHandler.emit
\* catch every exception (handleError); SQLAlchemyLogHandler.emit and
\* LokiHandeler.emit catch nothing.
Emit(st, h, record, commitOk) ==
  LET got == [st EXCEPT !.received[h] = Append(@, record)]
  IN IF handlers[h].kind = "db"
     THEN IF FormatFails(record) THEN [got EXCEPT !.raised = TRUE]
          ELSE StoreLog(got, RowOf(record), commitOk)
     ELSE got

\* Logger.callHandlers: the handlers hs[i..] in attach order; an exception
\* raised by an emit leaves the loop
RECURSIVE CallHandlers(_, _, _, _, _)
CallHandlers(st, hs, i, record, commitOk) ==
  IF i > Len(hs) \/ st.raised THEN st
  ELSE CallHandlers(IF record.levelno >= handlers[hs[i]].level
                    THEN Emit(st, hs[i], record, commitOk) ELSE st,
                    hs, i + 1, record, commitOk)

\* ----------------------------------------------------------- Logger._log
\* facade.<level>(msg) up to and including old_factory = getLogRecordFactory()
LogCall(t, fid, level, msg, caller, extra) ==
  LET cls == facades[fid].cls
  IN /\ Idle(t)
     /\ ncalls < MaxCalls
     /\ fid \in 1..Len(facades)
     /\ extra.present => (cls = "PostgreSQLLogger" /\ level >= ERROR)
     /\ ncalls' = ncalls + 1
     /\ thr' = [thr EXCEPT ![t] =
                  [IdleFrame EXCEPT !.pc = "log_install", !.facade = fid,
                                    !.level = level, !.msg = LevelPrefix(level) \o msg,
                                    !.info = GetExecutionInfo(LogStack(cls, level, caller)),
                                    !.stack = LogStack(cls, level, caller),
                                    !.old = factory, !.extra = extra,
                                    !.call = ncalls + 1]]
     /\ UNCHANGED <<loggers, handlers, received, facades, registry, factory, sessions, rows,
                    last, given>>

\* logging.setLogRecordFactory(record_factory)
LogInstall(t) ==
  /\ thr[t].pc = "log_install"
  /\ factory' = Append(thr[t].old, thr[t].info)
  /\ thr' = [thr EXCEPT ![t].pc = "log_emit"]
  /\ UNCHANGED <<loggers, handlers, received, facades, registry, sessions, rows,
                 last, given, ncalls>>

\* self._logger.log(level, message, ...)
LogEmit(t, commitOk) ==
  LET f == thr[t]
      lg == facades[f.facade].logger
      record == MakeRecord(factory, lg, f.level, f.msg, f.extra, f.call, f.info)
      st == CallHandlers([received |-> received, sessions |-> sessions,
                          rows |-> rows, raised |-> FALSE],
                         loggers[lg], 1, record, commitOk)
  IN /\ f.pc = "log_emit"
     /\ received' = st.received
     /\ sessions' = st.sessions
     /\ rows' = st.rows
     /\ thr' = [thr EXCEPT ![t].pc = "log_restore", ![t].raised = st.raised]
     /\ UNCHANGED <<loggers, handlers, facades, registry, factory, last, given, ncalls>>

\* finally: logging.setLogRecordFactory(old_factory), then return or re-raise
LogRestore(t) ==
  /\ thr[t].pc = "log_restore"
  /\ factory' = thr[t].old
  /\ thr' = [thr EXCEPT ![t] = IdleFrame]
  /\ last' = Finished("log", IF thr[t].raised THEN "raised" ELSE "returned")
  /\ UNCHANGED <<loggers, handlers, received, facades, registry, sessions, rows,
                 given, ncalls>>

\* ------------------------------------------- SQLAlchemyLogHandler.emit
Database == [received |-> received, sessions |-> sessions, rows |-> rows, raised |-> FALSE]

\* the record handed to handler h for the log call "call"
RecordFor(h, level, msg, info, call) ==
  MakeRecord(<< info >>, facades[handlers[h].owner].logger, level, msg, NoExtra, call, info)

\* the record of the emit that thread t runs
EmitRecord(t) ==
  RecordFor(thr[t].handler, thr[t].level, thr[t].msg, thr[t].info, thr[t].call)

\* emit(record) of the attached database handler h, called with the record of
\* a log call at level from caller: log_entry = self.format(record), then
\* store_log is entered
EmitCall(t, h, level, msg, caller) ==
  /\ Idle(t)
  /\ ncalls < MaxCalls
  /\ h \in 1..Len(handlers)
  /\ handlers[h].kind = "db"
  /\ \E i \in 1..Len(loggers[facades[handlers[h].owner].logger]) :
        loggers[facades[handlers[h].owner].logger][i] = h
  /\ ncalls' = ncalls + 1
  /\ thr' = [thr EXCEPT ![t] =
               [IdleFrame EXCEPT !.pc = "st_open", !.handler = h, !.level = level,
                                 !.msg = LevelPrefix(level) \o msg,
                                 !.info = FrameInfo(caller), !.call = ncalls + 1]]
  /\ received' = [received EXCEPT ![h] = Append(@, RecordFor(h, level, LevelPrefix(level) \o msg,
                                                          FrameInfo(caller), ncalls + 1))]
  /\ UNCHANGED <<loggers, handlers, facades, registry, factory, sessions, rows, last, given>>

\* store_log: session = self.Session()
StoreOpen(t) ==
  LET sid == NewSession(sessions)
  IN /\ thr[t].pc = "st_open"
     /\ sessions' = SessionOpen(Database, sid, thr[t].call).sessions
     /\ thr' = [thr EXCEPT ![t].pc = "st_add", ![t].session = sid]
     /\ UNCHANGED <<loggers, handlers, received, facades, registry, factory, rows,
                    last, given, ncalls>>

\* store_log: log = Log(...); session.add(log)
StoreAdd(t) ==
  /\ thr[t].pc = "st_add"
  /\ sessions' = SessionAdd(Database, thr[t].session, RowOf(EmitRecord(t))).sessions
  /\ thr' = [thr EXCEPT ![t].pc = "st_commit"]
  /\ UNCHANGED <<loggers, handlers, received, facades, registry, factory, rows,
                 last, given, ncalls>>

\* store_log: session.commit(), which may raise
StoreCommit(t, commitOk) ==
  /\ thr[t].pc = "st_commit"
  /\ IF commitOk
     THEN /\ sessions' = SessionCommit(Database, thr[t].session).sessions
          /\ rows' = SessionCommit(Database, thr[t].session).rows
          /\ thr' = [thr EXCEPT ![t].pc = "st_close"]
          /\ last' = last
     ELSE /\ thr' = [thr EXCEPT ![t] = IdleFrame]
          /\ last' = Finished("emit", "raised")
          /\ UNCHANGED <<sessions, rows>>
  /\ UNCHANGED <<loggers, handlers, received, facades, registry, factory, given, ncalls>>

\* store_log: session.close(), and emit returns
StoreClose(t) ==
  /\ thr[t].pc = "st_close"
  /\ sessions' = SessionClose(Database, thr[t].session).sessions
  /\ thr' = [thr EXCEPT ![t] = IdleFrame]
  /\ last' = Finished("emit", "returned")
  /\ UNCHANGED <<loggers, handlers, received, facades, registry, factory, rows,
                 given, ncalls>>

\* ---------------------------------------------------------- ErrorTracker
\* ErrorTracker.capture_error(error) builds its dict
CaptureError(t, error) ==
  /\ Idle(t)
  /\ thr' = [thr EXCEPT ![t] = [IdleFrame EXCEPT !.pc = "captured", !.error = error,
                                                 !.extra = CaptureErrorDict(error)]]
  /\ UNCHANGED <<loggers, handlers, received, facades, registry, factory, sessions, rows,
                 last, given, ncalls>>

\* return error_dict
CaptureReturn(t) ==
  /\ thr[t].pc = "captured"
  /\ thr' = [thr EXCEPT ![t] = IdleFrame]
  /\ last' = Finished("capture_error", "returned")
  /\ UNCHANGED <<loggers, handlers, received, facades, registry, factory, sessions, rows,
                 given, ncalls>>

\* ----------------------------------------------------------- AutoTracker
\* AutoTracker.get_execution_info() of loggers.py or of logging.py, called
\* with the frames outer above it
Resolve(t, impl, outer) ==
  LET stack == << TrackerFrame(impl) >> \o outer
      res == IF impl = ModuleName
             THEN [raised |-> FALSE, info |-> GetExecutionInfo(stack)]
             ELSE GetExecutionInfoLegacy(stack)
  IN /\ Idle(t)
     /\ thr' = [thr EXCEPT ![t] = [IdleFrame EXCEPT !.pc = "resolved", !.stack = stack,
                                                    !.info = res.info, !.raised = res.raised]]
     /\ UNCHANGED <<loggers, handlers, received, facades, registry, factory, sessions, rows,
                    last, given, ncalls>>

\* get_execution_info returns its dict or raises
ResolveReturn(t) ==
  /\ thr[t].pc = "resolved"
  /\ thr' = [thr EXCEPT ![t] = IdleFrame]
  /\ last' = Finished("get_execution_info", IF thr[t].raised THEN "raised" ELSE "returned")
  /\ UNCHANGED <<loggers, handlers, received, facades, registry, factory, sessions, rows,
                 given, ncalls>>

\* --------------------------------------------------------- LoggerManager
\* get_logger without its membership test: every lookup constructs
GetLoggerCheckAlwaysCreates(t, key, name) ==
  /\ Idle(t)
  /\ thr' = [thr EXCEPT ![t] =
               [IdleFrame EXCEPT !.pc = "gl_create", !.key = key, !.name = name]]
  /\ UNCHANGED <<loggers, handlers, received, facades, registry, factory, sessions, rows,
                 last, given, ncalls>>

\* get_logger: the test "log_file not in cls._loggers"
GetLoggerCheck(t, key, name) ==
  /\ Idle(t)
  /\ thr' = [thr EXCEPT ![t] =
               [IdleFrame EXCEPT !.pc = IF registry[key] = 0 THEN "gl_create" ELSE "gl_rename",
                                 !.key = key, !.name = name]]
  /\ UNCHANGED <<loggers, handlers, received, facades, registry, factory, sessions, rows,
                 last, given, ncalls>>

\* get_logger: Logger(formatter_type, log_file, name)
GetLoggerCreate(t) ==
  LET f == thr[t]
      fac == NewFacade("Logger", f.name, f.key, "manager")
      fid == Len(facades) + 1
  IN /\ f.pc = "gl_create"
     /\ Len(facades) < MaxFacades
     /\ CanProvision(fac)
     /\ SetupLogger(Append(facades, fac), fid)
     /\ thr' = [thr EXCEPT ![t].pc = "gl_store", ![t].facade = fid]
     /\ UNCHANGED <<registry, factory, sessions, rows, last, given, ncalls>>

\* get_logger: cls._loggers[log_file] = <the new Logger>
GetLoggerStore(t) ==
  /\ thr[t].pc = "gl_store"
  /\ registry' = [registry EXCEPT ![thr[t].key] = thr[t].facade]
  /\ thr' = [thr EXCEPT ![t].pc = "gl_return", ![t].facade = 0]
  /\ UNCHANGED <<loggers, handlers, received, facades, factory, sessions, rows,
                 last, given, ncalls>>

\* get_logger: cls._loggers[log_file].set_name(name)
GetLoggerRename(t) ==
  LET fid == registry[thr[t].key]
      fs == [facades EXCEPT ![fid].name = thr[t].name]
  IN /\ thr[t].pc = "gl_rename"
     /\ CanProvision(fs[fid])
     /\ SetupLogger(fs, fid)
     /\ thr' = [thr EXCEPT ![t].pc = "gl_return"]
     /\ UNCHANGED <<registry, factory, sessions, rows, last, given, ncalls>>

\* get_logger: return cls._loggers[log_file]
GetLoggerReturn(t) ==
  /\ thr[t].pc = "gl_return"
  /\ thr' = [thr EXCEPT ![t] = IdleFrame]
  /\ last' = Finished("get_logger", "returned")
  /\ given' = [given EXCEPT ![thr[t].key] = @ \cup {registry[thr[t].key]}]
  /\ UNCHANGED <<loggers, handlers, received, facades, registry, factory, sessions, rows,
                 ncalls>>

\* whether a facade of class cls has the attribute "logger" that
\* close_all_loggers and close_logger read: the classes of loggers.py keep
\* their logging logger in "_logger"
HasLoggerAttribute(cls) == FALSE

Registered == {k \in LogFiles : registry[k] # 0}

\* the handler lists of the loggers that the facades registered under keys
\* currently write to
RECURSIVE CloseAll(_, _)
CloseAll(hs, keys) ==
  IF keys = {} THEN hs
  ELSE LET k == CHOOSE x \in keys : TRUE
       IN CloseAll(CloseHandlersOf(hs, loggers[facades[registry[k]].logger]), keys \ {k})

\* LoggerManager.close_all_loggers()
CloseAllLoggers(t) ==
  /\ Idle(t)
  /\ IF \E k \in Registered : ~HasLoggerAttribute(facades[registry[k]].cls)
     THEN \* AttributeError on logger.logger: nothing was closed or cleared
          /\ last' = Finished("close_all_loggers", "raised")
          /\ UNCHANGED <<loggers, handlers, registry, given>>
     ELSE /\ handlers' = CloseAll(handlers, Registered)
          /\ loggers' = [n \in LoggerNames |->
                           IF \E k \in Registered : facades[registry[k]].logger = n
                           THEN << >> ELSE loggers[n]]
          /\ registry' = [k \in LogFiles |-> 0]
          /\ given' = [k \in LogFiles |-> {}]
          /\ last' = Finished("close_all_loggers", "returned")
  /\ UNCHANGED <<received, facades, factory, sessions, rows, thr, ncalls>>

\* LoggerManager.close_logger(log_file)
CloseLogger(t, key) ==
  /\ Idle(t)
  /\ IF registry[key] = 0
     THEN /\ last' = Finished("close_logger", "returned")
          /\ UNCHANGED <<loggers, handlers, registry, given>>
     ELSE IF ~HasLoggerAttribute(facades[registry[key]].cls)
     THEN /\ last' = Finished("close_logger", "raised")
          /\ UNCHANGED <<loggers, handlers, registry, given>>
     ELSE /\ handlers' = CloseHandlersOf(handlers, loggers[facades[registry[key]].logger])
          /\ loggers' = [loggers EXCEPT ![facades[registry[key]].logger] = << >>]
          /\ registry' = [registry EXCEPT ![key] = 0]
          /\ given' = [given EXCEPT ![key] = {}]
          /\ last' = Finished("close_logger", "returned")
  /\ UNCHANGED <<received, facades, factory, sessions, rows, thr, ncalls>>

\* ------------------------------------------------------- specifications
\* application code that builds, renames and closes facades itself
FacadeStep(t) ==
  \/ \E cls \in Classes, name \in Names, lf \in LogFiles \cup {None} : Construct(t, cls, name, lf)
  \/ \E fid \in 1..MaxFacades, name \in Names : SetName(t, fid, name)
  \/ \E fid \in 1..MaxFacades : CloseFacade(t, fid)

\* the steps of log calls at the levels lvls
LogCalls(t, lvls) ==
  \/ \E fid \in 1..MaxFacades, level \in lvls, msg \in Msgs, caller \in AppFrames,
        extra \in {NoExtra, ErrInfo} : LogCall(t, fid, level, msg, caller, extra)
  \/ LogInstall(t)
  \/ \E commitOk \in BOOLEAN : LogEmit(t, commitOk)
  \/ LogRestore(t)

\* application code that builds facades and logs through them at the levels
\* lvls
LogStepAt(t, lvls, names, files) ==
  \/ \E cls \in Classes, name \in names, lf \in files : Construct(t, cls, name, lf)
  \/ LogCalls(t, lvls)

\* application code that uses the LoggerManager
ManagerStep(t) ==
  \/ \E key \in LogFiles, name \in Names : GetLoggerCheck(t, key, name)
  \/ GetLoggerCreate(t)
  \/ GetLoggerStore(t)
  \/ GetLoggerRename(t)
  \/ GetLoggerReturn(t)
  \/ CloseAllLoggers(t)
  \/ \E key \in LogFiles : CloseLogger(t, key)

\* application code that describes the errors it caught
CaptureStep(t) ==
  \/ \E error \in Errors : CaptureError(t, error)
  \/ CaptureReturn(t)

\* application code that asks for its execution context
TrackerStep(t) ==
  \/ \E impl \in {ModuleName, LegacyModuleName}, outer \in OuterStacks : Resolve(t, impl, outer)
  \/ ResolveReturn(t)

\* the levels and log files of the runs with concurrent calls: one level
\* below ERROR and ERROR, one log file
RaceLevels == {INFO, ERROR}
RaceFiles == {None, "a.log"}

\* threads that emit records on a database handler
EmitStep(t) ==
  \/ \E h \in 1..MaxHandlers, level \in RaceLevels, msg \in Msgs, caller \in AppFrames :
        EmitCall(t, h, level, msg, caller)
  \/ StoreOpen(t)
  \/ StoreAdd(t)
  \/ \E commitOk \in BOOLEAN : StoreCommit(t, commitOk)
  \/ StoreClose(t)

OthersIdle(t) == \A u \in Threads \ {t} : Idle(u)

\* the threads of the application call into the facility concurrently
LogStep(t) == LogStepAt(t, Levels, Names, LogFiles \cup {None})

Next == \E t \in Threads : FacadeStep(t) \/ LogStep(t) \/ ManagerStep(t) \/ CaptureStep(t) \/ TrackerStep(t)
                           \/ EmitStep(t)
Spec == Init /\ [][Next]_vars

\* concurrent log calls
NextLog == \E t \in Threads : LogStepAt(t, RaceLevels, Names, RaceFiles)
SpecLog == Init /\ [][NextLog]_vars

\* one caller logs: a call runs to its end before the next one begins
NextLogSeq == \E t \in Threads : OthersIdle(t) /\ LogStep(t)
SpecLogSeq == Init /\ [][NextLogSeq]_vars

\* an application with one thread that builds one facade, of any class, and
\* logs through it
NextCaller ==
  \/ facades = << >> /\ \E cls \in Classes : Construct(1, cls, None, None)
  \/ LogCalls(1, Levels)
SpecCaller == Init /\ [][NextCaller]_vars

\* application code that builds, renames and closes facades
NextFacade == \E t \in Threads : FacadeStep(t)
SpecFacade == Init /\ [][NextFacade]_vars

\* one caller that builds Logger facades, renames them and looks them up
\* through the LoggerManager
SinkStep(t) ==
  \/ \E name \in Names, lf \in LogFiles \cup {None} : Construct(t, "Logger", name, lf)
  \/ \E fid \in 1..MaxFacades, name \in Names : SetName(t, fid, name)
  \/ \E key \in LogFiles, name \in Names : GetLoggerCheck(t, key, name)
  \/ GetLoggerCreate(t)
  \/ GetLoggerStore(t)
  \/ GetLoggerRename(t)
  \/ GetLoggerReturn(t)

NextSinks == \E t \in Threads : OthersIdle(t) /\ SinkStep(t)
SpecSinks == Init /\ [][NextSinks]_vars

\* one caller of AutoTracker.get_execution_info
NextTracker == \E t \in Threads : OthersIdle(t) /\ TrackerStep(t)
SpecTracker == Init /\ [][NextTracker]_vars

\* an application that builds one PostgreSQLLogger and whose threads emit on
\* its database handler concurrently
NextEmit ==
  \E t \in Threads :
    \/ facades = << >> /\ Construct(t, "PostgreSQLLogger", "svc", None)
    \/ EmitStep(t)
SpecEmit == Init /\ [][NextEmit]_vars

\* threads that call ErrorTracker.capture_error
NextCapture == \E t \in Threads : CaptureStep(t)
SpecCapture == Init /\ [][NextCapture]_vars

\* concurrent calls of the LoggerManager
NextManager == \E t \in Threads : ManagerStep(t)
SpecManager == Init /\ [][NextManager]_vars

\* one caller of the LoggerManager
NextManagerSeq == \E t \in Threads : OthersIdle(t) /\ ManagerStep(t)
SpecManagerSeq == Init /\ [][NextManagerSeq]_vars

\* ----------------------------------------------------------------- claims
\* the number of records of the log call c in the sequence rs
RECURSIVE CountCall(_, _)
CountCall(rs, c) ==
  IF rs = << >> THEN 0
  ELSE (IF rs[1].call = c THEN 1 ELSE 0) + CountCall(Tail(rs), c)

\* the handlers attached to the logger the facade fid writes to
Attached(fid) == loggers[facades[fid].logger]

\* C1: when a level method's dispatch has ended, every handler attached to
\* the facade whose level is <= the call's level has been handed exactly one
\* record of that call, and every attached handler with a higher level none.
C1_OnePerEligibleHandler ==
  \A t \in Threads :
    thr[t].pc = "log_restore" =>
      \A i \in 1..Len(Attached(thr[t].facade)) :
        LET h == Attached(thr[t].facade)[i]
        IN CountCall(received[h], thr[t].call)
             = IF handlers[h].level <= thr[t].level THEN 1 ELSE 0

ManagerMade(k) ==
  {f \in 1..Len(facades) : facades[f].by = "manager" /\ facades[f].log_file = k}

\* C2: under concurrent get_logger calls, all callers of one key are given
\* the same facade, and get_logger constructs at most one Logger per key.
C2_OneFacadePerKey ==
  \A k \in LogFiles : Cardinality(given[k]) <= 1 /\ Cardinality(ManagerMade(k)) <= 1

\* C3: every record handed to a handler carries the function, line and
\* module that the log call which made the record resolved.
C3_OwnCallerContext ==
  \A h \in 1..Len(received) : \A i \in 1..Len(received[h]) :
    LET r == received[h][i]
    IN /\ r.custom.set
       /\ r.custom.function = r.call_info.function
       /\ r.custom.lineno = r.call_info.lineno
       /\ r.custom.module = r.call_info.module

\* C4: once close_all_loggers has been called it has returned, the registry
\* is empty and no handler provisioned for a registered facade is open.
C4_CloseAllReleasesAll ==
  last.op = "close_all_loggers" =>
    /\ last.outcome = "returned"
    /\ \A k \in LogFiles : registry[k] = 0
    /\ \A h \in 1..Len(handlers) : handlers[h].closed

\* C5: the lookup of a key that is already registered creates no handler
\* and leaves the handlers of the facade's logger as they were.
C5_HitReusesSinks ==
  [][\A t \in Threads :
       (thr[t].pc = "gl_rename" /\ thr'[t].pc = "gl_return")
         => (handlers' = handlers /\ loggers' = loggers)]_vars

\* C6: with one caller, every get_logger call of a key has returned the one
\* facade the registry holds for the key, which get_logger constructed for
\* that key; distinct keys hold distinct facades; the registry holds an entry
\* exactly for the keys looked up.
C6_SameInstancePerKey ==
  /\ \A k \in LogFiles :
       /\ given[k] # {} => (registry[k] # 0 /\ given[k] = {registry[k]})
       /\ registry[k] # 0 =>
            /\ facades[registry[k]].by = "manager"
            /\ facades[registry[k]].log_file = k
            /\ \/ given[k] # {}
               \/ \E t \in Threads : thr[t].pc = "gl_return" /\ thr[t].key = k
  /\ \A k1, k2 \in LogFiles :
       (registry[k1] # 0 /\ registry[k1] = registry[k2]) => k1 = k2

\* a second lookup of a key is about to return while every key is registered
C6_Witness ==
  /\ \E t \in Threads : thr[t].pc = "gl_return" /\ given[thr[t].key] # {}
  /\ \A k \in LogFiles : registry[k] # 0

\* the commit of the log call c failed
CommitFailed(c) == \E s \in 1..Len(sessions) : sessions[s].call = c /\ sessions[s].txn = "pending"

\* C7: when the database handler's emit failed during a log call, every
\* handler attached after it whose level admits the record has received it.
C7_LaterHandlersStillServed ==
  \A t \in Threads :
    (thr[t].pc = "log_restore" /\ CommitFailed(thr[t].call)) =>
      \A i, j \in 1..Len(Attached(thr[t].facade)) :
        LET hi == Attached(thr[t].facade)[i]
            hj == Attached(thr[t].facade)[j]
        IN (i < j /\ handlers[hi].kind = "db" /\ handlers[hj].level <= thr[t].level)
             => CountCall(received[hj], thr[t].call) > 0

\* C8: a finished call of a level method has returned normally.
C8_LogCallReturns == last.op = "log" => last.outcome = "returned"

\* C9: after store_log, the session it opened is closed and holds no pending
\* transaction.
C9_SessionClosed ==
  \A s \in 1..Len(sessions) : sessions[s].state = "closed" /\ sessions[s].txn # "pending"

NullOr(present, v) == IF present THEN v ELSE None

\* C10: every stored row carries the module, class, function and line the
\* log call resolved and the error detail of its record, with null for what
\* the record lacks.
C10_RowMatchesRecord ==
  \A i \in 1..Len(rows) :
    LET r == rows[i]
        info == r.record.call_info
        x == r.record.extra
    IN /\ r.module = info.module
       /\ r.classname = info.class
       /\ r.func_name = info.function
       /\ r.lineno = info.lineno
       /\ r.error_type = NullOr(x.present, x.error_type)
       /\ r.error_message = NullOr(x.present, x.error_message)
       /\ r.error_args = NullOr(x.present, x.error_args)
       /\ r.error_traceback = NullOr(x.present, x.error_traceback)

InLogCall(t) == thr[t].pc \in {"log_install", "log_emit", "log_restore"}

\* the frame that called the level method of the log call of thread t
CallerFrame(t) ==
  LET st == thr[t].stack
      m == CHOOSE i \in 1..Len(st) :
             st[i].module = ModuleName /\ st[i].function = LevelMethod(thr[t].level)
  IN st[m + 1]

SameSite(x, fr) ==
  x.function = fr.function /\ x.lineno = fr.lineno /\ x.module = fr.module

\* C11: with one caller, the exec_info a level method resolves, and the
\* function, line and module of every record that call hands to a handler,
\* are those of the frame that called the level method.
C11_CallerFrameResolved ==
  \A t \in Threads :
    InLogCall(t) =>
      /\ SameSite(thr[t].info, CallerFrame(t))
      /\ \A h \in 1..Len(received) : \A i \in 1..Len(received[h]) :
           received[h][i].call = thr[t].call =>
             (received[h][i].custom.set /\ SameSite(received[h][i].custom, CallerFrame(t)))

\* PostgreSQLLogger.error has handed a record to a handler
C11_Witness ==
  \E t \in Threads :
    /\ thr[t].pc = "log_restore"
    /\ facades[thr[t].facade].cls = "PostgreSQLLogger"
    /\ thr[t].level = ERROR
    /\ \E h \in 1..Len(received) : \E i \in 1..Len(received[h]) :
         received[h][i].call = thr[t].call

C13_CloseReleasesEveryHandler ==
  [][\A t \in Threads, fid \in 1..MaxFacades :
       CloseFacade(t, fid) =>
         \A h \in 1..Len(handlers') :
           handlers'[h].owner = fid =>
             (handlers'[h].closed /\ ~(\E n \in LoggerNames : \E i \in 1..Len(loggers'[n]) :
                                         loggers'[n][i] = h))]_vars

\* C14: close_logger of a registered key returns with that facade's handlers
\* closed and detached and that key removed, every other entry, handler and
\* logger as before; close_logger of a key that is not registered returns
\* and changes nothing.
C14_CloseLoggerFrame ==
  [][\A t \in Threads, key \in LogFiles :
       CloseLogger(t, key) =>
         /\ last'.outcome = "returned"
         /\ registry' = [registry EXCEPT ![key] = 0]
         /\ IF registry[key] = 0
            THEN handlers' = handlers /\ loggers' = loggers
            ELSE LET lg == facades[registry[key]].logger
                 IN /\ handlers' = CloseHandlersOf(handlers, loggers[lg])
                    /\ loggers' = [loggers EXCEPT ![lg] = << >>]]_vars

\* C18: constructing a facade, or renaming one, leaves the handler list of
\* the logger of every other facade as it was.
C18_OtherFacadesKeepHandlers ==
  [][/\ \A t \in Threads, cls \in Classes, name \in Names, lf \in LogFiles \cup {None} :
          Construct(t, cls, name, lf) =>
            \A g \in 1..Len(facades) : loggers'[facades'[g].logger] = loggers[facades[g].logger]
     /\ \A t \in Threads, fid \in 1..MaxFacades, name \in Names :
          SetName(t, fid, name) =>
            \A g \in 1..Len(facades) :
              g # fid => loggers'[facades'[g].logger] = loggers[facades[g].logger]]_vars

\* the number of handlers of kind k in the handler list hs
RECURSIVE CountKind(_, _)
CountKind(hs, k) ==
  IF hs = << >> THEN 0
  ELSE (IF handlers[hs[1]].kind = k THEN 1 ELSE 0) + CountKind(Tail(hs), k)

\* C19: the logger a Logger facade writes to carries exactly one console
\* handler, and one file handler if the facade has a log_file, none otherwise.
C19_OneHandlerPerKind ==
  \A fid \in 1..Len(facades) :
    facades[fid].cls = "Logger" =>
      /\ CountKind(Attached(fid), "console") = 1
      /\ CountKind(Attached(fid), "file") = IF facades[fid].log_file # None THEN 1 ELSE 0

\* C15: get_execution_info, of loggers.py and of logging.py, ends without
\* raising on a stack of any depth.
C15_TrackerNeverRaises ==
  \A t \in Threads : thr[t].pc = "resolved" => ~thr[t].raised

\* C17: when no log call is in flight, the process-wide record factory is
\* the one that was installed before the first log call: no record_factory
\* closure of a finished call is left installed.
C17_FactoryRestored ==
  (\A t \in Threads : Idle(t)) => factory = << >>

StorePcs == {"st_add", "st_commit", "st_close"}

\* the rows a session holds or has committed
SessionRows(s) == sessions[s].pending \o sessions[s].committed

\* C16: under concurrent emits on the database handler, every session is the
\* session of one emit: no two emits in flight use the same session, a session
\* holds or has committed at most one row, which is the row of the emit that
\* opened it, a session closed by store_log has committed exactly that row,
\* and the table holds each emit's row at most once.
C16_OneSessionPerEmit ==
  /\ \A t \in Threads :
       thr[t].pc \in StorePcs =>
         /\ thr[t].session \in 1..Len(sessions)
         /\ sessions[thr[t].session].call = thr[t].call
         /\ sessions[thr[t].session].state = "open"
         /\ \A u \in Threads \ {t} : thr[u].pc \in StorePcs => thr[u].session # thr[t].session
         /\ thr[t].pc = "st_commit" => Len(sessions[thr[t].session].pending) = 1
  /\ \A s \in 1..Len(sessions) :
       /\ Len(SessionRows(s)) <= 1
       /\ \A i \in 1..Len(SessionRows(s)) : SessionRows(s)[i].record.call = sessions[s].call
       /\ sessions[s].state = "closed" =>
            (Len(sessions[s].committed) = 1 /\ sessions[s].pending = << >>)
  /\ \A s1, s2 \in 1..Len(sessions) : sessions[s1].call = sessions[s2].call => s1 = s2
  /\ \A i, j \in 1..Len(rows) : rows[i].record.call = rows[j].record.call => i = j

\* two emits are inside store_log at once, one about to commit and one that
\* has committed
C16_Witness ==
  \E t, u \in Threads :
    /\ thr[t].pc = "st_commit"
    /\ thr[u].pc = "st_close"
    /\ thr[t].handler = thr[u].handler
====
